---- MODULE Spec2Model ----
(***************************************************************************)
(* tinygrad/nn/__init__.py: BatchNorm2d, Conv2d, Linear, GroupNorm and      *)
(* LayerNorm as a state machine over ONE module object.                    *)
(*                                                                         *)
(* The tensor engine (tinygrad.tensor.Tensor) is a black box: a value it   *)
(* produces is the TERM of the engine operations that produced it, e.g.    *)
(* pow(add(running_var, eps), -0.5).  Two equal terms denote equal tensors *)
(* (the engine's operations are functions of their arguments), so an      *)
(* equality the model proves holds of the values; an inequality of terms   *)
(* is only used in witnesses, on terms whose values do differ.             *)
(*                                                                         *)
(* Python floats are integers in units of 1e-5 (FloatOne is 1.0).          *)
(***************************************************************************)
EXTENDS Integers, Sequences, FiniteSets, TLC

VARIABLES
  cls,       \* the class of the module object, "none" before construction
  attrs,     \* the object's __dict__: attribute name -> value
  attrs0,    \* history: attrs as __init__ left it
  ctor,      \* history: the arguments of the last __init__
  training,  \* Tensor.training, the engine's global mode flag
  last,      \* the last operation performed
  x,         \* the input of the last __call__
  calls,     \* the engine operations the last operation invoked, in order
  ret,       \* the value the last __call__ returned
  raised     \* the exception the last operation raised, "none" if none

vars == <<cls, attrs, attrs0, ctor, training, last, x, calls, ret, raised>>

-----------------------------------------------------------------------------
(* Bounds *)

MaxSz == 2        \* channel counts / feature sizes range over 1..MaxSz
NumInputs == 2    \* distinct input tensors a caller passes
MaxBatches == 2   \* cap on training calls that update the running statistics
MaxSeed == 1      \* outcomes of the random weight initialisation

FloatOne == 100000

EpsVals == {1, 100}                       \* 1e-5 (the default), 1e-3
MomentumVals == {FloatOne \div 10, FloatOne \div 2}   \* 0.1 (the default), 0.5
SzVals == 1..MaxSz
Seeds == 1..MaxSeed

-----------------------------------------------------------------------------
(* Values: terms of engine operations, Python literals, None *)

T(fn, args) == [fn |-> fn, args |-> args, v |-> 0]
Lit(n) == [fn |-> "int", args |-> <<>>, v |-> n]
Flt(n) == [fn |-> "float", args |-> <<>>, v |-> n]
None == [fn |-> "None", args |-> <<>>, v |-> 0]
Tup(s) == [fn |-> "tuple", args |-> [i \in 1..Len(s) |-> Lit(s[i])], v |-> 0]
Input(i) == [fn |-> "input", args |-> <<>>, v |-> i]
Inputs == {Input(i) : i \in 1..NumInputs}
\* a tensor whose values the random initialisation drew (outcome `seed`)
Rand(fn, args, seed) == [fn |-> fn, args |-> args, v |-> seed]
\* a tensor a user writes into the module from outside
UserTensor(i) == [fn |-> "user", args |-> <<>>, v |-> i]
UserTensors == {UserTensor(i) : i \in 1..NumInputs}

NoGrad == T("requires_grad=False", <<>>)

\* bool(obj): None is falsy, a Tensor object is truthy
Truthy(t) == t.fn # "None"

NoAttrs == [a \in {} |-> None]
hasattr(self, name) == name \in DOMAIN self
setattr(self, name, val) ==
  [a \in DOMAIN self \cup {name} |-> IF a = name THEN val ELSE self[a]]

-----------------------------------------------------------------------------
(* BatchNorm2d *)

BatchNorm2d_attrs(sz, eps, track_running_stats, momentum) ==
  [eps |-> eps, track_running_stats |-> track_running_stats, momentum |-> momentum,
   weight |-> T("ones", <<Lit(sz)>>),
   bias |-> T("zeros", <<Lit(sz)>>),
   running_mean |-> T("zeros", <<Lit(sz), NoGrad>>),
   running_var |-> T("ones", <<Lit(sz), NoGrad>>),
   num_batches_tracked |-> T("zeros", <<Lit(1), NoGrad>>)]

BatchNorm2d_init_calls == <<"ones", "zeros", "zeros", "ones", "zeros">>

\* batch_var.add(self.eps).pow(-0.5)
InvStd(batch_var, eps) ==
  T("pow", <<T("add", <<batch_var, Flt(eps)>>), Flt(0 - (FloatOne \div 2))>>)

RECURSIVE Tracked(_)
\* the number of `+= 1` applied to num_batches_tracked
Tracked(t) == IF t.fn = "iadd" THEN 1 + Tracked(t.args[1]) ELSE 0

Axis023 == Tup(<<0, 2, 3>>)
Shape1m11 == Tup(<<1, 0 - 1, 1, 1>>)

\* BatchNorm2d_new with the assertion on `affine` left out
BatchNorm2d_new_noassert(sz, eps, affine, track_running_stats, momentum) ==
  [raised |-> "none",
   self |-> BatchNorm2d_attrs(sz, eps, track_running_stats, momentum),
   calls |-> BatchNorm2d_init_calls]

\* __init__: the assertion, then the attributes
BatchNorm2d_new(sz, eps, affine, track_running_stats, momentum) ==
  IF ~affine
    THEN [raised |-> "AssertionError", self |-> NoAttrs, calls |-> <<>>]
    ELSE [raised |-> "none",
          self |-> BatchNorm2d_attrs(sz, eps, track_running_stats, momentum),
          calls |-> BatchNorm2d_init_calls]

\* (1 - self.momentum) * running + self.momentum * batch
Momentum(self, running, batch) ==
  T("add", <<T("mul", <<Flt(FloatOne - self.momentum), running>>),
             T("mul", <<Flt(self.momentum), batch>>)>>)

\* BatchNorm2d_train without `self.batch_invstd = None`
BatchNorm2d_train_noreset(self, xx) ==
  LET x_detached == T("detach", <<xx>>)
      batch_mean == T("mean", <<x_detached, Axis023>>)
      y == T("sub", <<x_detached, T("reshape", <<batch_mean, Shape1m11>>)>>)
      batch_var == T("mean", <<T("mul", <<y, y>>), Axis023>>)
      s2 == IF self.track_running_stats
              THEN [self EXCEPT
                      !.running_mean = Momentum(self, self.running_mean, batch_mean),
                      !.running_var = Momentum(self, self.running_var, batch_var),
                      !.num_batches_tracked = T("iadd", <<@, Lit(1)>>)]
              ELSE self
  IN [self |-> s2, batch_mean |-> batch_mean,
      batch_invstd |-> InvStd(batch_var, self.eps),
      calls |-> <<"detach", "mean", "reshape", "sub", "mul", "mean", "add", "pow">>
                \o (IF self.track_running_stats
                      THEN <<"mul", "mul", "add", "assign",
                             "mul", "mul", "add", "assign", "iadd">>
                      ELSE <<>>)]

\* BatchNorm2d_train with the running mean assigned into self.bias
BatchNorm2d_train_bias(self, xx) ==
  LET x_detached == T("detach", <<xx>>)
      batch_mean == T("mean", <<x_detached, Axis023>>)
      y == T("sub", <<x_detached, T("reshape", <<batch_mean, Shape1m11>>)>>)
      batch_var == T("mean", <<T("mul", <<y, y>>), Axis023>>)
      s1 == setattr(self, "batch_invstd", None)
      s2 == IF self.track_running_stats
              THEN [s1 EXCEPT
                      !.bias = Momentum(self, self.running_mean, batch_mean),
                      !.running_var = Momentum(self, self.running_var, batch_var),
                      !.num_batches_tracked = T("iadd", <<@, Lit(1)>>)]
              ELSE s1
  IN [self |-> s2, batch_mean |-> batch_mean,
      batch_invstd |-> InvStd(batch_var, self.eps),
      calls |-> <<"detach", "mean", "reshape", "sub", "mul", "mean", "add", "pow">>
                \o (IF self.track_running_stats
                      THEN <<"mul", "mul", "add", "assign",
                             "mul", "mul", "add", "assign", "iadd">>
                      ELSE <<>>)]

\* the Tensor.training branch of __call__
BatchNorm2d_train(self, xx) ==
  LET x_detached == T("detach", <<xx>>)
      batch_mean == T("mean", <<x_detached, Axis023>>)
      y == T("sub", <<x_detached, T("reshape", <<batch_mean, Shape1m11>>)>>)
      batch_var == T("mean", <<T("mul", <<y, y>>), Axis023>>)
      batch_invstd == InvStd(batch_var, self.eps)
      s1 == setattr(self, "batch_invstd", None)
      s2 == IF self.track_running_stats
              THEN [s1 EXCEPT
                      !.running_mean = Momentum(self, self.running_mean, batch_mean),
                      !.running_var = Momentum(self, self.running_var, batch_var),
                      !.num_batches_tracked = T("iadd", <<@, Lit(1)>>)]
              ELSE s1
  IN [self |-> s2, batch_mean |-> batch_mean, batch_invstd |-> batch_invstd,
      calls |-> <<"detach", "mean", "reshape", "sub", "mul", "mean", "add", "pow">>
                \o (IF self.track_running_stats
                      THEN <<"mul", "mul", "add", "assign",
                             "mul", "mul", "add", "assign", "iadd">>
                      ELSE <<>>)]

\* BatchNorm2d_eval that recomputes the inverse std on every call
BatchNorm2d_eval_nocache(self, xx) ==
  LET s1 == setattr(self, "batch_invstd", InvStd(self.running_var, self.eps))
  IN [self |-> s1, batch_mean |-> self.running_mean, batch_invstd |-> s1.batch_invstd,
      calls |-> <<"add", "pow">>]

\* the else branch of __call__
BatchNorm2d_eval(self, xx) ==
  LET batch_mean == self.running_mean
      batch_var == self.running_var
      miss == ~hasattr(self, "batch_invstd") \/ ~Truthy(self.batch_invstd)
      s1 == IF miss THEN setattr(self, "batch_invstd", InvStd(batch_var, self.eps))
                    ELSE self
  IN [self |-> s1, batch_mean |-> batch_mean, batch_invstd |-> s1.batch_invstd,
      calls |-> IF miss THEN <<"add", "pow">> ELSE <<>>]

BatchNorm2d_forward(self, tr, xx) ==
  LET r == IF tr THEN BatchNorm2d_train(self, xx) ELSE BatchNorm2d_eval(self, xx)
  IN [self |-> r.self,
      ret |-> T("batchnorm", <<xx, r.self.weight, r.self.bias, r.batch_mean, r.batch_invstd>>),
      calls |-> Append(r.calls, "batchnorm")]

-----------------------------------------------------------------------------
(* Conv2d *)

PyInt(n) == [ty |-> "int", v |-> <<n>>]
PyTuple(s) == [ty |-> "tuple", v |-> s]
KernelSizes == {PyInt(3), PyTuple(<<1, 3>>)}

Conv2d_attrs(in_channels, out_channels, kernel_size, stride, padding, dilation, groups, bias, seed) ==
  LET ks == IF kernel_size.ty = "int" THEN <<kernel_size.v[1], kernel_size.v[1]>>
                                      ELSE <<kernel_size.v[1], kernel_size.v[2]>>
  IN [kernel_size |-> ks, stride |-> stride, padding |-> padding,
      dilation |-> dilation, groups |-> groups,
      weight |-> Rand("glorot_uniform",
                      <<Lit(out_channels), Lit(in_channels \div groups), Lit(ks[1]), Lit(ks[2])>>,
                      seed),
      bias |-> IF bias THEN T("zeros", <<Lit(out_channels)>>) ELSE None]

Conv2d_forward(self, xx) ==
  [self |-> self,
   ret |-> T("conv2d", <<xx, self.weight, self.bias, Lit(self.padding), Lit(self.stride),
                         Lit(self.dilation), Lit(self.groups)>>),
   calls |-> <<"conv2d">>]

-----------------------------------------------------------------------------
(* Linear *)

Linear_attrs(in_features, out_features, bias, seed) ==
  [weight |-> Rand("glorot_uniform", <<Lit(out_features), Lit(in_features)>>, seed),
   bias |-> IF bias THEN T("zeros", <<Lit(out_features)>>) ELSE None]

\* Linear_forward that keeps the transposed weight on the module
Linear_forward_stores(self, xx) ==
  [self |-> [self EXCEPT !.weight = T("transpose", <<self.weight>>)],
   ret |-> T("linear", <<xx, T("transpose", <<self.weight>>), self.bias>>),
   calls |-> <<"transpose", "linear">>]

Linear_forward(self, xx) ==
  [self |-> self,
   ret |-> T("linear", <<xx, T("transpose", <<self.weight>>), self.bias>>),
   calls |-> <<"transpose", "linear">>]

-----------------------------------------------------------------------------
(* GroupNorm *)

GroupNorm_attrs(num_groups, num_channels, eps, affine) ==
  [num_groups |-> num_groups, num_channels |-> num_channels, eps |-> eps,
   weight |-> IF affine THEN T("ones", <<Lit(num_channels)>>) ELSE None,
   bias |-> IF affine THEN T("zeros", <<Lit(num_channels)>>) ELSE None]

\* x.shape is an attribute of the input, not an engine operation
Shape(xx) == T("shape", <<xx>>)

\* GroupNorm_forward that returns before the elementwise affine step
GroupNorm_forward_noaffine(self, xx) ==
  [self |-> self,
   ret |-> T("reshape",
             <<T("layernorm",
                 <<T("reshape", <<xx, T("getitem", <<Shape(xx), Lit(0)>>),
                                  Lit(self.num_groups), Lit(0 - 1)>>),
                   Flt(self.eps)>>),
               Shape(xx)>>),
   calls |-> <<"reshape", "layernorm", "reshape">>]

GroupNorm_forward(self, xx) ==
  LET x1 == T("reshape",
              <<T("layernorm",
                  <<T("reshape", <<xx, T("getitem", <<Shape(xx), Lit(0)>>),
                                   Lit(self.num_groups), Lit(0 - 1)>>),
                    Flt(self.eps)>>),
                Shape(xx)>>)
  IN IF self.weight.fn = "None" \/ self.bias.fn = "None"
       THEN [self |-> self, ret |-> x1, calls |-> <<"reshape", "layernorm", "reshape">>]
       ELSE [self |-> self,
             ret |-> T("add", <<T("mul", <<x1, T("reshape", <<self.weight, Shape1m11>>)>>),
                                T("reshape", <<self.bias, Shape1m11>>)>>),
             calls |-> <<"reshape", "layernorm", "reshape", "reshape", "mul", "reshape", "add">>]

-----------------------------------------------------------------------------
(* LayerNorm *)

NormalizedShapes == {PyInt(n) : n \in SzVals} \cup {PyTuple(<<2, n>>) : n \in SzVals}

LayerNorm_attrs(normalized_shape, eps, elementwise_affine) ==
  LET shape == IF normalized_shape.ty = "int" THEN <<normalized_shape.v[1]>>
                                              ELSE normalized_shape.v
  IN [axis |-> [i \in 1..Len(shape) |-> (0 - 1) - (i - 1)],
      eps |-> eps, elementwise_affine |-> elementwise_affine,
      weight |-> IF elementwise_affine THEN T("ones", Tup(shape).args) ELSE None,
      bias |-> IF elementwise_affine THEN T("zeros", Tup(shape).args) ELSE None]

LayerNorm_forward(self, xx) ==
  LET x1 == T("layernorm", <<xx, Flt(self.eps), Tup(self.axis)>>)
  IN IF ~self.elementwise_affine
       THEN [self |-> self, ret |-> x1, calls |-> <<"layernorm">>]
       ELSE [self |-> self,
             ret |-> T("add", <<T("mul", <<x1, self.weight>>), self.bias>>),
             calls |-> <<"layernorm", "mul", "add">>]

-----------------------------------------------------------------------------
(* The state machine *)

Init ==
  /\ cls = "none"
  /\ attrs = NoAttrs
  /\ attrs0 = NoAttrs
  /\ ctor = NoAttrs
  /\ training = FALSE
  /\ last = "none"
  /\ x = None
  /\ calls = <<>>
  /\ ret = None
  /\ raised = "none"

\* a constructor that returned: the object exists with the attributes `self`
Constructed(c, self, args, engine) ==
  /\ cls' = c
  /\ attrs' = self
  /\ attrs0' = self
  /\ ctor' = args
  /\ calls' = engine
  /\ raised' = "none"
  /\ x' = None
  /\ ret' = None
  /\ UNCHANGED training

\* a __call__ that returned r.ret and left the attributes r.self
Called(xx, r) ==
  /\ attrs' = r.self
  /\ x' = xx
  /\ calls' = r.calls
  /\ ret' = r.ret
  /\ raised' = "none"
  /\ UNCHANGED <<cls, attrs0, ctor, training>>

BatchNorm2d_init ==
  /\ cls = "none"
  /\ last' = "BatchNorm2d.__init__"
  /\ \E sz \in SzVals, eps \in EpsVals, affine \in BOOLEAN,
        track_running_stats \in BOOLEAN, momentum \in MomentumVals :
       LET r == BatchNorm2d_new(sz, eps, affine, track_running_stats, momentum)
           args == [sz |-> sz, eps |-> eps, affine |-> affine,
                    track_running_stats |-> track_running_stats, momentum |-> momentum]
       IN IF r.raised # "none"
            THEN /\ raised' = r.raised
                 /\ ctor' = args
                 /\ calls' = r.calls
                 /\ x' = None
                 /\ ret' = None
                 /\ UNCHANGED <<cls, attrs, attrs0, training>>
            ELSE Constructed("BatchNorm2d", r.self, args, r.calls)

BatchNorm2d_call ==
  /\ cls = "BatchNorm2d"
  /\ (training /\ attrs.track_running_stats)
       => Tracked(attrs.num_batches_tracked) < MaxBatches
  /\ last' = "BatchNorm2d.__call__"
  /\ \E xx \in Inputs : Called(xx, BatchNorm2d_forward(attrs, training, xx))

Conv2d_init ==
  /\ cls = "none"
  /\ last' = "Conv2d.__init__"
  /\ \E in_channels \in {2}, out_channels \in SzVals, kernel_size \in KernelSizes,
        stride \in {1, 2}, padding \in {0, 1}, dilation \in {1}, groups \in {1, 2},
        bias \in BOOLEAN, seed \in Seeds :
       Constructed("Conv2d",
                   Conv2d_attrs(in_channels, out_channels, kernel_size, stride, padding,
                                dilation, groups, bias, seed),
                   [bias |-> bias],
                   <<"glorot_uniform">> \o (IF bias THEN <<"zeros">> ELSE <<>>))

Conv2d_call ==
  /\ cls = "Conv2d"
  /\ last' = "Conv2d.__call__"
  /\ \E xx \in Inputs : Called(xx, Conv2d_forward(attrs, xx))

Linear_init ==
  /\ cls = "none"
  /\ last' = "Linear.__init__"
  /\ \E in_features \in SzVals, out_features \in SzVals, bias \in BOOLEAN, seed \in Seeds :
       Constructed("Linear", Linear_attrs(in_features, out_features, bias, seed),
                   [bias |-> bias],
                   <<"glorot_uniform">> \o (IF bias THEN <<"zeros">> ELSE <<>>))

Linear_call ==
  /\ cls = "Linear"
  /\ last' = "Linear.__call__"
  /\ \E xx \in Inputs : Called(xx, Linear_forward(attrs, xx))

GroupNorm_init ==
  /\ cls = "none"
  /\ last' = "GroupNorm.__init__"
  /\ \E num_groups \in SzVals, num_channels \in SzVals, eps \in EpsVals, affine \in BOOLEAN :
       Constructed("GroupNorm", GroupNorm_attrs(num_groups, num_channels, eps, affine),
                   [affine |-> affine],
                   IF affine THEN <<"ones", "zeros">> ELSE <<>>)

GroupNorm_call ==
  /\ cls = "GroupNorm"
  /\ last' = "GroupNorm.__call__"
  /\ \E xx \in Inputs : Called(xx, GroupNorm_forward(attrs, xx))

LayerNorm_init ==
  /\ cls = "none"
  /\ last' = "LayerNorm.__init__"
  /\ \E normalized_shape \in NormalizedShapes, eps \in EpsVals,
        elementwise_affine \in BOOLEAN :
       Constructed("LayerNorm", LayerNorm_attrs(normalized_shape, eps, elementwise_affine),
                   [affine |-> elementwise_affine],
                   IF elementwise_affine THEN <<"ones", "zeros">> ELSE <<>>)

LayerNorm_call ==
  /\ cls = "LayerNorm"
  /\ last' = "LayerNorm.__call__"
  /\ \E xx \in Inputs : Called(xx, LayerNorm_forward(attrs, xx))

\* an operation that is no engine work of the module: nothing called, nothing returned
Outside(op) ==
  /\ last' = op
  /\ x' = None
  /\ calls' = <<>>
  /\ ret' = None
  /\ raised' = "none"

\* Tensor.training = b
SetTraining ==
  /\ \E b \in BOOLEAN : b # training /\ training' = b
  /\ Outside("Tensor.training=")
  /\ UNCHANGED <<cls, attrs, attrs0, ctor>>

\* "if you manually update running_var ...": a write to running_var from outside
UserSetRunningVar ==
  /\ cls = "BatchNorm2d"
  /\ \E t \in UserTensors : attrs' = [attrs EXCEPT !.running_var = t]
  /\ Outside("running_var=")
  /\ UNCHANGED <<cls, attrs0, ctor, training>>

\* "... you have to reset this": batch_invstd = None from outside
UserResetInvstd ==
  /\ cls = "BatchNorm2d"
  /\ attrs' = setattr(attrs, "batch_invstd", None)
  /\ Outside("batch_invstd=None")
  /\ UNCHANGED <<cls, attrs0, ctor, training>>

Next ==
  \/ BatchNorm2d_init
  \/ BatchNorm2d_call
  \/ Conv2d_init
  \/ Conv2d_call
  \/ Linear_init
  \/ Linear_call
  \/ GroupNorm_init
  \/ GroupNorm_call
  \/ LayerNorm_init
  \/ LayerNorm_call
  \/ SetTraining

\* the module's own operations only
Spec == Init /\ [][Next]_vars

NextUser ==
  \/ Next
  \/ UserSetRunningVar
  \/ UserResetInvstd

\* the module's operations and a user's writes to running_var and batch_invstd
SpecUser == Init /\ [][NextUser]_vars

-----------------------------------------------------------------------------
(* Claims *)

CallOps == {"BatchNorm2d.__call__", "Conv2d.__call__", "Linear.__call__",
            "GroupNorm.__call__", "LayerNorm.__call__"}
Stateless == {"Conv2d", "Linear", "GroupNorm", "LayerNorm"}
AfterEvalCall == last = "BatchNorm2d.__call__" /\ ~training
\* the inverse std in batchnorm(x, weight, bias, mean, invstd)
PassedInvstd(r) == r.args[5]

\* C1 as stated: after any sequence of calls every module's attributes are what
\* __init__ left.
C1_Original == cls # "none" => attrs = attrs0

\* C1 amended: Conv2d, Linear, GroupNorm and LayerNorm keep every attribute as
\* __init__ left it and return a function of the input and those attributes;
\* on BatchNorm2d calls keep eps, track_running_stats, momentum, weight and bias,
\* may create or rebind batch_invstd, and change the running statistics only when
\* track_running_stats is set.
C1_Amended ==
  /\ cls \in Stateless => attrs = attrs0
  /\ last = "Conv2d.__call__" => ret = Conv2d_forward(attrs0, x).ret
  /\ last = "Linear.__call__" => ret = Linear_forward(attrs0, x).ret
  /\ last = "GroupNorm.__call__" => ret = GroupNorm_forward(attrs0, x).ret
  /\ last = "LayerNorm.__call__" => ret = LayerNorm_forward(attrs0, x).ret
  /\ cls = "BatchNorm2d" =>
       /\ DOMAIN attrs0 \subseteq DOMAIN attrs
       /\ DOMAIN attrs \subseteq DOMAIN attrs0 \cup {"batch_invstd"}
       /\ \A a \in {"eps", "track_running_stats", "momentum", "weight", "bias"} :
            attrs[a] = attrs0[a]
       /\ ~attrs.track_running_stats =>
            \A a \in {"running_mean", "running_var", "num_batches_tracked"} :
              attrs[a] = attrs0[a]

\* a BatchNorm2d call has changed the running variance and created batch_invstd
C1_Witness ==
  /\ last = "BatchNorm2d.__call__"
  /\ attrs.running_var # attrs0.running_var
  /\ hasattr(attrs, "batch_invstd")
  /\ ~hasattr(attrs0, "batch_invstd")

\* C2: no call modifies weight or bias: they stay what __init__ built (ones/zeros
\* for BatchNorm2d, GroupNorm, LayerNorm; bias None without bias; both None
\* without affine).
C2_ParamsKept ==
  cls # "none" =>
    /\ attrs.weight = attrs0.weight
    /\ attrs.bias = attrs0.bias
    /\ cls = "BatchNorm2d" =>
         /\ attrs.weight = T("ones", <<Lit(ctor.sz)>>)
         /\ attrs.bias = T("zeros", <<Lit(ctor.sz)>>)
    /\ cls = "GroupNorm" =>
         IF ctor.affine
           THEN /\ attrs.weight = T("ones", <<Lit(attrs.num_channels)>>)
                /\ attrs.bias = T("zeros", <<Lit(attrs.num_channels)>>)
           ELSE attrs.weight = None /\ attrs.bias = None
    /\ cls = "LayerNorm" =>
         IF ctor.affine
           THEN attrs.weight.fn = "ones" /\ attrs.bias.fn = "zeros"
           ELSE attrs.weight = None /\ attrs.bias = None
    /\ cls \in {"Conv2d", "Linear"} =>
         /\ attrs.weight.fn = "glorot_uniform"
         /\ IF ctor.bias THEN attrs.bias.fn = "zeros" ELSE attrs.bias = None

\* an eval call on a BatchNorm2d that training calls have updated
C2_Witness ==
  /\ AfterEvalCall
  /\ Tracked(attrs.num_batches_tracked) >= 1
  /\ attrs.running_mean # attrs0.running_mean

\* C3: an eval call that finds a truthy batch_invstd passes it on and keeps it,
\* whatever running_var is now; one that finds it missing or None computes
\* (running_var + eps)^-0.5, stores it and passes that.
C3_CacheReused ==
  [][(cls = "BatchNorm2d" /\ ~training /\ last' = "BatchNorm2d.__call__") =>
       IF hasattr(attrs, "batch_invstd") /\ Truthy(attrs.batch_invstd)
         THEN /\ attrs'.batch_invstd = attrs.batch_invstd
              /\ PassedInvstd(ret') = attrs.batch_invstd
              /\ calls' = <<"batchnorm">>
         ELSE /\ attrs'.batch_invstd = InvStd(attrs.running_var, attrs.eps)
              /\ PassedInvstd(ret') = InvStd(attrs.running_var, attrs.eps)
              /\ calls' = <<"add", "pow", "batchnorm">>]_vars

\* an eval call has normalized with the inverse std of a running_var that a
\* manual update has since replaced
C3_Witness ==
  /\ AfterEvalCall
  /\ calls = <<"batchnorm">>
  /\ attrs.running_var.fn = "user"
  /\ PassedInvstd(ret) # InvStd(attrs.running_var, attrs.eps)

\* C4: BatchNorm2d(affine=False) raises AssertionError and sets no attribute, so
\* every BatchNorm2d has weight and bias; with affine the attributes are
\* ones/zeros/zeros/ones and num_batches_tracked = zeros(1).
C4_AffineOnly ==
  /\ (last = "BatchNorm2d.__init__" /\ ~ctor.affine) =>
       raised = "AssertionError" /\ cls = "none" /\ DOMAIN attrs = {} /\ calls = <<>>
  /\ (last = "BatchNorm2d.__init__" /\ ctor.affine) =>
       /\ raised = "none"
       /\ cls = "BatchNorm2d"
       /\ attrs = [eps |-> ctor.eps, track_running_stats |-> ctor.track_running_stats,
                   momentum |-> ctor.momentum,
                   weight |-> T("ones", <<Lit(ctor.sz)>>),
                   bias |-> T("zeros", <<Lit(ctor.sz)>>),
                   running_mean |-> T("zeros", <<Lit(ctor.sz), NoGrad>>),
                   running_var |-> T("ones", <<Lit(ctor.sz), NoGrad>>),
                   num_batches_tracked |-> T("zeros", <<Lit(1), NoGrad>>)]
  /\ cls = "BatchNorm2d" =>
       ctor.affine /\ Truthy(attrs.weight) /\ Truthy(attrs.bias)

\* the constructor was called with affine=False
C4_Witness == last = "BatchNorm2d.__init__" /\ ~ctor.affine /\ raised = "AssertionError"

\* C5: with no outside write, a stored truthy batch_invstd is the inverse std of
\* the current running_var, and so is what an eval call passes to batchnorm.
C5_CacheCoherent ==
  /\ (cls = "BatchNorm2d" /\ hasattr(attrs, "batch_invstd") /\ Truthy(attrs.batch_invstd))
       => attrs.batch_invstd = InvStd(attrs.running_var, attrs.eps)
  /\ AfterEvalCall => PassedInvstd(ret) = InvStd(attrs.running_var, attrs.eps)

\* an eval call served from the cache after training calls moved running_var
C5_Witness ==
  /\ AfterEvalCall
  /\ calls = <<"batchnorm">>
  /\ Tracked(attrs.num_batches_tracked) >= 2
  /\ attrs.running_var # attrs0.running_var

\* C6 as stated: every module call invokes one or two engine operations.
C6_Original == last \in CallOps => Len(calls) \in 1..2

\* C6 amended: the engine operations of one call are 1 for Conv2d, 2 for Linear,
\* 1 or 3 for LayerNorm (without / with affine), 3 or 7 for GroupNorm (without /
\* with affine), 1 or 3 for a BatchNorm2d eval call (cached / computed inverse
\* std) and 9 or 18 for a BatchNorm2d training call (without / with running
\* statistics).
C6_Amended ==
  last \in CallOps =>
    /\ cls = "Conv2d" => calls = <<"conv2d">>
    /\ cls = "Linear" => Len(calls) = 2
    /\ cls = "LayerNorm" => Len(calls) = IF attrs.elementwise_affine THEN 3 ELSE 1
    /\ cls = "GroupNorm" => Len(calls) = IF ctor.affine THEN 7 ELSE 3
    /\ cls = "BatchNorm2d" =>
         IF training
           THEN Len(calls) = IF attrs.track_running_stats THEN 18 ELSE 9
           ELSE Len(calls) \in {1, 3}

\* a training call that updates the running statistics
C6_Witness == last = "BatchNorm2d.__call__" /\ Len(calls) = 18

====
